---- MODULE Spec2Model ----
(***************************************************************************)
(* A model of trixi/pytorchutils.py: the saliency-map gradient extractors  *)
(* (get_vanilla_image_gradient, get_guided_image_gradient), the smoothing  *)
(* wrapper (get_smooth_image_gradient), the dispatcher (get_input_gradient)*)
(* and the state merger (update_model).                                    *)
(*                                                                         *)
(* The torch model is a chain of element-wise layers (ReLU and scalar      *)
(* linear layers) behind one container module; a tensor is a sequence of   *)
(* rationals <<numerator, denominator>> in lowest terms; Python call       *)
(* frames are a stack of frame names and a program counter.                *)
(***************************************************************************)
EXTENDS Integers, Sequences, FiniteSets, TLC

\* ------------------------------------------------------------- bounds
MaxLayers == 2    \* the model has 0..MaxLayers layers below its container
MaxLen == 2       \* input tensors have 1..MaxLen elements
MaxRuns == 2      \* n_runs ranges over 0..MaxRuns
MaxCalls == 2     \* top-level calls made on the same model object

\* ------------------------------------------------------------- numbers
AbsInt(n) == IF n < 0 THEN -n ELSE n

RECURSIVE GCD(_, _)
GCD(a, b) == IF b = 0 THEN a ELSE GCD(b, a % b)

\* A rational in lowest terms with a positive denominator.
Norm(n, d) == LET g == GCD(AbsInt(n), d) IN <<n \div g, d \div g>>

Rat(n) == <<n, 1>>

RatAdd(a, b) == Norm(a[1] * b[2] + b[1] * a[2], a[2] * b[2])

RatScale(k, a) == Norm(k * a[1], a[2])

RatDivInt(a, k) == Norm(a[1], a[2] * k)

RatAbs(a) == <<AbsInt(a[1]), a[2]>>

RatPos(a) == a[1] > 0

\* ------------------------------------------------------------- tensors
\* zeros of one fixed shape, whatever the input's shape
zeros_scalar(t) == <<Rat(0)>>

\* memory of the input's shape that is never cleared
zeros_uncleared(t) == t

\* torch.zeros_like(t)
zeros_like(t) == [i \in 1..Len(t) |-> Rat(0)]

\* torch.abs(t)
torch_abs(t) == [i \in 1..Len(t) |-> RatAbs(t[i])]

\* the noise added without the eps scaling
AddUnscaled(t, noise, e) == [i \in 1..Len(t) |-> RatAdd(t[i], noise[i])]

\* t + noise * eps  (a new tensor; neither operand is written)
AddScaled(t, noise, e) == [i \in 1..Len(t) |-> RatAdd(t[i], RatScale(e, noise[i]))]

RECURSIVE SumAt(_, _, _)
SumAt(ts, i, k) == IF k = 0 THEN Rat(0) ELSE RatAdd(SumAt(ts, i, k - 1), ts[k][i])

\* torch.mean(torch.stack(ts), dim=0), ts a non-empty list of same-shape tensors
torch_mean(ts) ==
    [i \in 1..Len(ts[1]) |-> RatDivInt(SumAt(ts, i, Len(ts)), Len(ts))]

\* ------------------------------------------------------------- the torch model
\* Layer i of the chain: ReLU at odd positions, a scalar linear layer (which
\* owns a parameter) at even positions.
Layer(i) == IF i % 2 = 1 THEN [kind |-> "relu", w |-> 1]
            ELSE [kind |-> "linear", w |-> -1]

Nets == {[i \in 1..k |-> Layer(i)] : k \in 0..MaxLayers}

\* model.modules(): the container itself, then its layers. Module 1 is the
\* container, module i + 1 is layer i.
NModules(n) == Len(n) + 1

HasParams(n) == \E i \in 1..Len(n) : n[i].kind = "linear"

\* forward: the value entering layer i (i = Len(n) + 1: the output)
RECURSIVE ActIn(_, _, _)
ActIn(n, x, i) ==
    IF i = 1 THEN x
    ELSE LET a == ActIn(n, x, i - 1) IN
         IF n[i - 1].kind = "relu" THEN (IF RatPos(a) THEN a ELSE Rat(0))
         ELSE RatScale(n[i - 1].w, a)

\* guided_relu_hook_function: clamp grad_in of a ReLU at 0, leave others alone
guided_relu_hook_function(kind, g) ==
    IF kind \in {"relu"} THEN (IF g < 0 THEN 0 ELSE g) ELSE g

\* backward through layers i..1 of the chain at input element x, with
\* upstream gradient g; hk[m] is the number of guided hooks on module m.
RECURSIVE BackFrom(_, _, _, _, _)
BackFrom(n, hk, x, i, g) ==
    IF i = 0 THEN g
    ELSE LET local == IF n[i].kind = "relu"
                      THEN (IF RatPos(ActIn(n, x, i)) THEN g ELSE 0)
                      ELSE n[i].w * g
             hooked == IF hk[i + 1] > 0
                       THEN guided_relu_hook_function(n[i].kind, local)
                       ELSE local
         IN BackFrom(n, hk, x, i - 1, hooked)


\* ------------------------------------------------------------- the error function
\* err_fn is the caller's closure. The kinds cover what lines 18-21 / 50-53
\* can meet: an error through the model (either sign), an error of the input
\* alone, a closure that raises, a result with no graph (backward raises),
\* and an error of the parameters alone (inpt.grad stays None).
ErrFns == {"model_sum", "neg_model_sum", "input_sum", "raises", "no_graph", "params_only"}

UsesModel(e) == e \in {"model_sum", "neg_model_sum", "params_only"}

\* err_fn(inpt) raises
ErrFnRaises(e) == e = "raises"

\* err.backward() raises: nothing in err requires grad
BackwardRaises(e, n) == e = "no_graph" \/ (e = "params_only" /\ ~HasParams(n))

\* inpt.grad is None after backward, so inpt.grad.detach() raises
InptGradIsNone(e) == e = "params_only"

\* inpt.grad after err.backward(), one element per input element
InptGrad(e, n, hk, x) ==
    [i \in 1..Len(x) |->
        Rat(CASE e = "model_sum" -> BackFrom(n, hk, x[i], Len(n), 1)
              [] e = "neg_model_sum" -> BackFrom(n, hk, x[i], Len(n), -1)
              [] OTHER -> 1)]

\* what err.backward() adds to the model's accumulated gradients: the count of
\* backward passes accumulated since the last zero_grad
Accumulate(g, e, n) == IF UsesModel(e) /\ HasParams(n) THEN g + 1 ELSE g

\* a zero_grad that clears nothing
zero_grad_skipped(g) == g

\* model.zero_grad()
zero_grad(g) == 0

\* lines 41-43: one hook on every module of model.modules()
register_hooks(hk, n) == [m \in 1..NModules(n) |-> hk[m] + 1]

\* the handles line 43 collects, in module order
HookIds(n) == [m \in 1..NModules(n) |-> m]

\* lines 56-57: hooks.remove() for every collected handle
RECURSIVE remove_hooks(_, _)
remove_hooks(hk, ids) ==
    IF ids = <<>> THEN hk
    ELSE remove_hooks([hk EXCEPT ![Head(ids)] = hk[Head(ids)] - 1], Tail(ids))

\* lines 26-28 / 59-61: if abs: grad = torch.abs(grad)
ApplyAbs(a, g) == IF a THEN torch_abs(g) ELSE g

\* every run perturbs the caller's original input instead of the previous run's
PerturbOriginal(local, caller, noise, e) ==
    [local |-> AddScaled(caller, noise, e), caller |-> caller]

\* line 68: inpt = inpt + torch.randn(inpt.size()) * eps rebinds the local name
\* to a new tensor; the caller's tensor object is not written.
\* [local |-> the local binding, caller |-> the caller's tensor]
Perturb(local, caller, noise, e) ==
    [local |-> AddScaled(local, noise, e), caller |-> caller]

\* ------------------------------------------------------------- input domains
InVals == {-1, 1}
NoiseVals == {-1, 1}
EpsVals == {0, 1}

\* a tensor of L elements: v at odd positions, v * s at even positions
Pattern(L, v, s) == [i \in 1..L |-> Rat(IF i % 2 = 1 THEN v ELSE v * s)]

\* the caller's inputs: mixed signs, so that ReLU passes some elements and
\* blocks others
Inputs == {Pattern(L, v, -1) : L \in 1..MaxLen, v \in InVals}

\* torch.randn(inpt.size()): a draw of the input's shape
Randn(L) == {Pattern(L, v, 1) : v \in NoiseVals}

GradTypes == {"vanilla", "guided", "smooth-vanilla", "smooth-guided", "other"}
InnerTypes == {"vanilla", "guided", "other"}

NoTensor == <<>>
NoArgs == [fn |-> "none", is_module |-> TRUE, err_fn |-> "input_sum", abs |-> FALSE,
           n_runs |-> 0, eps |-> 0, grad_type |-> "none", inpt |-> NoTensor]

\* ------------------------------------------------------------- state
VARIABLES
    net,          \* the model: its chain of layers
    hooks,        \* module -> number of backward hooks registered on it
    model_grads,  \* the model's accumulated gradients (0: zero)
    calls,        \* top-level calls made so far
    args,         \* the arguments of the current top-level call
    caller_inpt,  \* the caller's input tensor object
    stack,        \* the call frames, outermost first: "ig", "sm", "ex"
    pc,           \* position in the innermost frame
    grad,         \* get_input_gradient: grad
    sm_grad_type, \* get_smooth_image_gradient: grad_type
    sm_inpt,      \* get_smooth_image_gradient: inpt (rebound every run)
    grads,        \* get_smooth_image_gradient: grads
    ex_variant,   \* which extractor the innermost "ex" frame runs
    ex_inpt,      \* extractor: inpt
    hook_ids,     \* get_guided_image_gradient: hook_ids
    ex_grad,      \* extractor: grad
    outcome,      \* "none", "returned" or "raised": how the top-level call ended
    retval,       \* the value the top-level call returned
    log,          \* observable events of the current top-level call, in order
    warnings,     \* warnings.warn calls of the current top-level call
    sink,         \* the argument tuples results_fn was called with
    noises,       \* the eps-scaled noise added in each run
    seen,         \* the input handed to the extractor in each inner call
    hooks_at_call,\* hooks when the current top-level call started
    state_dict,   \* the model's state dictionary: layer name -> value
    um_args,      \* the arguments of the update_model call made, if any
    state_before, \* the model's state dictionary when update_model was called
    warned,       \* update_model: warning message -> times it was emitted
    um_outcome    \* "none", "returned" or "raised": how update_model ended

persistent == <<net, hooks, model_grads, calls>>
ig_frame == <<grad>>
sm_frame == <<sm_grad_type, sm_inpt, grads>>
ex_frame == <<ex_variant, ex_inpt, hook_ids, ex_grad>>
result == <<outcome, retval>>
observed == <<log, warnings, sink, noises, seen, hooks_at_call>>
um_vars == <<state_dict, um_args, state_before, warned, um_outcome>>
grad_vars == <<net, hooks, model_grads, calls, args, caller_inpt, stack, pc, grad,
               sm_grad_type, sm_inpt, grads, ex_variant, ex_inpt, hook_ids, ex_grad,
               outcome, retval, log, warnings, sink, noises, seen, hooks_at_call>>
vars == <<grad_vars, um_vars>>

Idle ==
    /\ args = NoArgs /\ caller_inpt = NoTensor
    /\ stack = <<>> /\ pc = "idle"
    /\ grad = NoTensor
    /\ sm_grad_type = "none" /\ sm_inpt = NoTensor /\ grads = <<>>
    /\ ex_variant = "none" /\ ex_inpt = NoTensor /\ hook_ids = <<>> /\ ex_grad = NoTensor
    /\ outcome = "none" /\ retval = NoTensor
    /\ log = <<>> /\ warnings = 0 /\ sink = <<>> /\ noises = <<>> /\ seen = <<>>

\* ------------------------------------------------------------- frames
ExtractorName(v) == IF v = "guided" THEN "get_guided_image_gradient"
                    ELSE "get_vanilla_image_gradient"

\* an exception leaves every frame: nothing in the module catches it
Raise ==
    /\ stack' = <<>>
    /\ pc' = "done"
    /\ outcome' = "raised"
    /\ retval' = NoTensor
    /\ UNCHANGED <<grad, grads>>

\* return v from the innermost frame; the caller binds it (line 70/72:
\* single_grad, appended at line 76; lines 102-108: grad)
Return(v) ==
    LET caller == IF Len(stack) = 1 THEN "top" ELSE stack[Len(stack) - 1] IN
    /\ stack' = SubSeq(stack, 1, Len(stack) - 1)
    /\ pc' = CASE caller = "sm" -> "sm_loop"
               [] caller = "ig" -> "ig_after"
               [] OTHER -> "done"
    /\ grads' = IF caller = "sm" THEN Append(grads, v) ELSE grads
    /\ grad' = IF caller = "ig" THEN v ELSE grad
    /\ outcome' = IF caller = "top" THEN "returned" ELSE outcome
    /\ retval' = IF caller = "top" THEN v ELSE retval

\* the dispatcher returning what results_fn returned
IgReturnsSinkValue(g, rv) == rv

\* line 116: return grad (rv is what results_fn returned)
IgReturn(g, rv) == g

\* line 114: results_fn(grad): the positional arguments of the call
ResultsFnArgs(g) == <<g>>

\* ------------------------------------------------------------- top-level calls
StartCall(a, x) ==
    /\ calls' = calls + 1
    /\ args' = a
    /\ caller_inpt' = x
    /\ hooks_at_call' = hooks
    /\ UNCHANGED <<net, hooks, model_grads, grad, hook_ids, ex_grad, result,
                   warnings, sink, noises, seen>>

\* get_vanilla_image_gradient(model, inpt, err_fn, abs); model may be a plain
\* callable (line 11)
call_get_vanilla_image_gradient ==
    /\ pc = "idle"
    /\ UNCHANGED um_vars
    /\ calls < MaxCalls
    /\ \E x \in Inputs, e \in ErrFns, a \in BOOLEAN, m \in BOOLEAN :
        /\ StartCall([fn |-> "get_vanilla_image_gradient", is_module |-> m, err_fn |-> e,
                      abs |-> a, n_runs |-> 0, eps |-> 0, grad_type |-> "none", inpt |-> x], x)
        /\ stack' = <<"ex">>
        /\ pc' = "ex_enter"
        /\ ex_variant' = "vanilla"
        /\ ex_inpt' = x
        /\ log' = <<"get_vanilla_image_gradient">>
        /\ UNCHANGED sm_frame

\* get_guided_image_gradient(model, inpt, err_fn, abs)
call_get_guided_image_gradient ==
    /\ pc = "idle"
    /\ UNCHANGED um_vars
    /\ calls < MaxCalls
    /\ \E x \in Inputs, e \in ErrFns, a \in BOOLEAN :
        /\ StartCall([fn |-> "get_guided_image_gradient", is_module |-> TRUE, err_fn |-> e,
                      abs |-> a, n_runs |-> 0, eps |-> 0, grad_type |-> "none", inpt |-> x], x)
        /\ stack' = <<"ex">>
        /\ pc' = "ex_enter"
        /\ ex_variant' = "guided"
        /\ ex_inpt' = x
        /\ log' = <<"get_guided_image_gradient">>
        /\ UNCHANGED sm_frame

\* get_smooth_image_gradient(model, inpt, err_fn, abs, n_runs, eps, grad_type)
call_get_smooth_image_gradient ==
    /\ pc = "idle"
    /\ UNCHANGED um_vars
    /\ calls < MaxCalls
    /\ \E x \in Inputs, e \in ErrFns, a \in BOOLEAN, n \in 0..MaxRuns,
       ep \in EpsVals, t \in InnerTypes :
        /\ StartCall([fn |-> "get_smooth_image_gradient", is_module |-> TRUE, err_fn |-> e,
                      abs |-> a, n_runs |-> n, eps |-> ep, grad_type |-> t, inpt |-> x], x)
        /\ stack' = <<"sm">>
        /\ pc' = "sm_loop"
        /\ sm_grad_type' = t
        /\ sm_inpt' = x
        /\ grads' = <<>>
        /\ log' = <<"get_smooth_image_gradient">>
        /\ UNCHANGED <<ex_variant, ex_inpt>>

\* get_input_gradient(model, inpt, err_fn, grad_type, n_runs, eps, abs, results_fn)
call_get_input_gradient ==
    /\ pc = "idle"
    /\ UNCHANGED um_vars
    /\ calls < MaxCalls
    /\ \E x \in Inputs, e \in ErrFns, a \in BOOLEAN, n \in 0..MaxRuns,
       ep \in EpsVals, t \in GradTypes :
        /\ StartCall([fn |-> "get_input_gradient", is_module |-> TRUE, err_fn |-> e,
                      abs |-> a,
                      n_runs |-> IF t \in {"smooth-vanilla", "smooth-guided"} THEN n ELSE 0,
                      eps |-> IF t \in {"smooth-vanilla", "smooth-guided"} THEN ep ELSE 0,
                      grad_type |-> t, inpt |-> x], x)
        /\ stack' = <<"ig">>
        /\ pc' = "ig_enter"
        /\ log' = <<"get_input_gradient">>
        /\ UNCHANGED <<sm_frame, ex_variant, ex_inpt>>

\* the caller goes on to its next call on the same model
next_call ==
    /\ pc = "done"
    /\ UNCHANGED um_vars
    /\ args' = NoArgs /\ caller_inpt' = NoTensor
    /\ stack' = <<>> /\ pc' = "idle"
    /\ grad' = NoTensor
    /\ sm_grad_type' = "none" /\ sm_inpt' = NoTensor /\ grads' = <<>>
    /\ ex_variant' = "none" /\ ex_inpt' = NoTensor /\ hook_ids' = <<>>
    /\ ex_grad' = NoTensor
    /\ outcome' = "none" /\ retval' = NoTensor
    /\ log' = <<>> /\ warnings' = 0 /\ sink' = <<>> /\ noises' = <<>> /\ seen' = <<>>
    /\ hooks_at_call' = hooks
    /\ UNCHANGED persistent

\* ------------------------------------------------------------- the extractors
\* lines 11-14 (vanilla), 37-46 (guided)
ex_enter ==
    /\ pc = "ex_enter"
    /\ UNCHANGED um_vars
    /\ IF ex_variant = "guided"
       THEN /\ model_grads' = zero_grad(model_grads)
            /\ hooks' = register_hooks(hooks, net)
            /\ hook_ids' = HookIds(net)
            /\ log' = Append(log, "zero_grad")
       ELSE /\ model_grads' = IF args.is_module THEN zero_grad(model_grads) ELSE model_grads
            /\ log' = IF args.is_module THEN Append(log, "zero_grad") ELSE log
            /\ UNCHANGED <<hooks, hook_ids>>
    /\ pc' = "ex_err_fn"
    /\ UNCHANGED <<net, calls, args, caller_inpt, stack, ig_frame, sm_frame,
                   ex_variant, ex_inpt, ex_grad, result, warnings, sink, noises,
                   seen, hooks_at_call>>

\* line 18 / 50: err = err_fn(inpt)
ex_err_fn ==
    /\ pc = "ex_err_fn"
    /\ UNCHANGED um_vars
    /\ log' = Append(log, "err_fn")
    /\ IF ErrFnRaises(args.err_fn)
       THEN Raise
       ELSE /\ pc' = "ex_backward"
            /\ UNCHANGED <<stack, result, grad, grads>>
    /\ UNCHANGED <<persistent, args, caller_inpt, sm_grad_type, sm_inpt, ex_frame,
                   warnings, sink, noises, seen, hooks_at_call>>

\* lines 19-21 / 51-53: err.backward(); grad = inpt.grad.detach()
ex_backward ==
    /\ pc = "ex_backward"
    /\ UNCHANGED um_vars
    /\ log' = Append(log, "backward")
    /\ IF BackwardRaises(args.err_fn, net)
       THEN /\ Raise
            /\ UNCHANGED <<model_grads, ex_grad>>
       ELSE /\ model_grads' = Accumulate(model_grads, args.err_fn, net)
            /\ IF InptGradIsNone(args.err_fn)
               THEN /\ Raise
                    /\ UNCHANGED ex_grad
               ELSE /\ ex_grad' = InptGrad(args.err_fn, net, hooks, ex_inpt)
                    /\ pc' = "ex_finish"
                    /\ UNCHANGED <<stack, result, grad, grads>>
    /\ UNCHANGED <<net, hooks, calls, args, caller_inpt, sm_grad_type, sm_inpt,
                   ex_variant, ex_inpt, hook_ids, warnings, sink, noises, seen,
                   hooks_at_call>>

\* lines 23-28 (vanilla), 55-61 (guided)
ex_finish ==
    /\ pc = "ex_finish"
    /\ UNCHANGED um_vars
    /\ IF ex_variant = "guided"
       THEN /\ model_grads' = zero_grad(model_grads)
            /\ hooks' = remove_hooks(hooks, hook_ids)
            /\ log' = Append(log, "zero_grad")
       ELSE /\ model_grads' = IF args.is_module THEN zero_grad(model_grads) ELSE model_grads
            /\ log' = IF args.is_module THEN Append(log, "zero_grad") ELSE log
            /\ UNCHANGED hooks
    /\ Return(ApplyAbs(args.abs, ex_grad))
    /\ UNCHANGED <<net, calls, args, caller_inpt, sm_grad_type, sm_inpt, ex_frame,
                   warnings, sink, noises, seen, hooks_at_call>>


\* ------------------------------------------------------------- the smoothing wrapper
\* a loop that runs once too often
LoopOffByOne(i, n) == i <= n

\* line 67: for i in range(n_runs), i the number of runs made so far
LoopContinues(i, n) == i < n

\* lines 67-76: one iteration of the loop, up to the inner call
sm_iter ==
    /\ pc = "sm_loop"
    /\ UNCHANGED um_vars
    /\ LoopContinues(Len(grads), args.n_runs)
    /\ \E noise \in Randn(Len(sm_inpt)) :
        LET p == Perturb(sm_inpt, caller_inpt, noise, args.eps) IN
        /\ sm_inpt' = p.local
        /\ caller_inpt' = p.caller
        /\ noises' = Append(noises, [i \in 1..Len(noise) |-> RatScale(args.eps, noise[i])])
        /\ IF sm_grad_type \in {"vanilla", "guided"}
           THEN /\ stack' = Append(stack, "ex")
                /\ pc' = "ex_enter"
                /\ ex_variant' = sm_grad_type
                /\ ex_inpt' = p.local
                /\ seen' = Append(seen, p.local)
                /\ log' = Append(log, ExtractorName(sm_grad_type))
                /\ UNCHANGED <<grads, warnings>>
           ELSE /\ warnings' = warnings + 1
                /\ grads' = Append(grads, zeros_like(p.local))
                /\ log' = Append(log, "warn")
                /\ UNCHANGED <<stack, pc, ex_variant, ex_inpt, seen>>
    /\ UNCHANGED <<persistent, args, grad, sm_grad_type, hook_ids, ex_grad, result,
                   sink, hooks_at_call>>

\* lines 78-79: grad = torch.mean(torch.stack(grads), dim=0); return grad.detach()
\* torch.stack raises on an empty list
sm_finish ==
    /\ pc = "sm_loop"
    /\ UNCHANGED um_vars
    /\ ~LoopContinues(Len(grads), args.n_runs)
    /\ IF grads = <<>>
       THEN Raise
       ELSE Return(torch_mean(grads))
    /\ UNCHANGED <<persistent, args, caller_inpt, sm_grad_type, sm_inpt, ex_frame,
                   observed>>

\* ------------------------------------------------------------- the dispatcher
\* lines 99-111
ig_dispatch ==
    /\ pc = "ig_enter"
    /\ UNCHANGED um_vars
    /\ model_grads' = zero_grad(model_grads)
    /\ CASE args.grad_type \in {"vanilla", "guided"} ->
              /\ stack' = Append(stack, "ex")
              /\ pc' = "ex_enter"
              /\ ex_variant' = args.grad_type
              /\ ex_inpt' = caller_inpt
              /\ log' = log \o <<"zero_grad", ExtractorName(args.grad_type)>>
              /\ UNCHANGED <<grad, sm_frame, warnings>>
         [] args.grad_type \in {"smooth-vanilla", "smooth-guided"} ->
              /\ stack' = Append(stack, "sm")
              /\ pc' = "sm_loop"
              /\ sm_grad_type' = IF args.grad_type = "smooth-vanilla" THEN "vanilla"
                                 ELSE "guided"
              /\ sm_inpt' = caller_inpt
              /\ grads' = <<>>
              /\ log' = log \o <<"zero_grad", "get_smooth_image_gradient">>
              /\ UNCHANGED <<grad, ex_variant, ex_inpt, warnings>>
         [] OTHER ->
              /\ warnings' = warnings + 1
              /\ grad' = zeros_like(caller_inpt)
              /\ pc' = "ig_after"
              /\ log' = log \o <<"zero_grad", "warn">>
              /\ UNCHANGED <<stack, sm_frame, ex_variant, ex_inpt>>
    /\ UNCHANGED <<net, hooks, calls, args, caller_inpt, hook_ids, ex_grad, result,
                   sink, noises, seen, hooks_at_call>>

\* lines 112-116
ig_finish ==
    /\ pc = "ig_after"
    /\ UNCHANGED um_vars
    /\ model_grads' = zero_grad(model_grads)
    /\ sink' = Append(sink, ResultsFnArgs(grad))
    /\ log' = log \o <<"zero_grad", "results_fn">>
    /\ \E rv \in {NoTensor, zeros_like(grad)} :
        /\ stack' = <<>>
        /\ pc' = "done"
        /\ outcome' = "returned"
        /\ retval' = IgReturn(grad, rv)
    /\ UNCHANGED <<net, hooks, calls, args, caller_inpt, grad, sm_frame, ex_frame,
                   warnings, noises, seen, hooks_at_call>>

\* ------------------------------------------------------------- the state merger
Keys == {"A", "B", "C", "D"}
ModelValues == {0}
UpdateValues == {1, 2}

\* the mappings from some of the keys to values
Dicts(vals) == UNION {[ks -> vals] : ks \in SUBSET Keys}

NoCall == [fn |-> "none"]
Messages == {"not used", "not updated"} \X Keys
NoWarnings == [m \in Messages |-> 0]

\* unused computed without removing the excluded layers
UnusedIgnoringExclude(model_dict, update_dict, exclude_layers) ==
    (DOMAIN update_dict) \ DOMAIN model_dict

\* line 123: unused = set(update_dict.keys()) - set(exclude_layers) - set(model_dict.keys())
Unused(model_dict, update_dict, exclude_layers) ==
    ((DOMAIN update_dict) \ exclude_layers) \ DOMAIN model_dict

\* line 124: not_updated = set(model_dict.keys()) - set(exclude_layers) - set(update_dict.keys())
NotUpdated(model_dict, update_dict, exclude_layers) ==
    ((DOMAIN model_dict) \ exclude_layers) \ DOMAIN update_dict

\* lines 125-129: one warnings.warn per item of each set, when do_warnings
Warn(model_dict, update_dict, exclude_layers, do_warnings) ==
    [m \in Messages |->
        IF ~do_warnings THEN 0
        ELSE IF m[1] = "not used"
             THEN (IF m[2] \in Unused(model_dict, update_dict, exclude_layers) THEN 1 ELSE 0)
             ELSE (IF m[2] \in NotUpdated(model_dict, update_dict, exclude_layers) THEN 1 ELSE 0)]

\* a filter that forgets the excluded layers
FilterIgnoringExclude(model_dict, update_dict, exclude_layers) ==
    [k \in {k \in DOMAIN update_dict : k \in DOMAIN model_dict} |-> update_dict[k]]

\* lines 132-133: {k: v for k, v in update_dict.items()
\*                 if k in model_dict and k not in exclude_layers}
Filter(model_dict, update_dict, exclude_layers) ==
    [k \in {k \in DOMAIN update_dict : k \in DOMAIN model_dict /\ k \notin exclude_layers}
        |-> update_dict[k]]

\* line 136: model_dict.update(update_dict)
dict_update(d, u) ==
    [k \in (DOMAIN d) \cup (DOMAIN u) |-> IF k \in DOMAIN u THEN u[k] ELSE d[k]]

\* line 139: original_model.load_state_dict(model_dict), strict: it raises
\* when the keys are not the model's, and then loads nothing
LoadRaises(sd, new) == DOMAIN new # DOMAIN sd

load_state_dict(sd, new) == IF LoadRaises(sd, new) THEN sd ELSE [k \in DOMAIN sd |-> new[k]]

\* lines 118-139: the model's state dictionary after the call
Merged(sd, update_dict, exclude_layers, do_warnings) ==
    load_state_dict(sd, dict_update(sd, Filter(sd, update_dict, exclude_layers)))

\* update_model(original_model, update_dict, exclude_layers, do_warnings)
update_model ==
    /\ um_args = NoCall
    /\ \E u \in Dicts(UpdateValues), ex \in SUBSET Keys, w \in BOOLEAN :
        /\ um_args' = [fn |-> "update_model", update_dict |-> u, exclude_layers |-> ex,
                       do_warnings |-> w]
        /\ state_before' = state_dict
        /\ warned' = Warn(state_dict, u, ex, w)
        /\ state_dict' = Merged(state_dict, u, ex, w)
        /\ um_outcome' = IF LoadRaises(state_dict,
                                       dict_update(state_dict, Filter(state_dict, u, ex)))
                         THEN "raised" ELSE "returned"
    /\ UNCHANGED grad_vars

UmIdle ==
    /\ um_args = NoCall
    /\ state_before = state_dict
    /\ warned = NoWarnings
    /\ um_outcome = "none"

Init ==
    /\ net \in Nets
    /\ hooks = [m \in 1..NModules(net) |-> 0]
    /\ model_grads \in {0, 1}
    /\ calls = 0
    /\ hooks_at_call = hooks
    /\ Idle
    /\ state_dict = [k \in {"A", "B", "C"} |-> 0]
    /\ UmIdle

InitUpdate ==
    /\ net = <<>>
    /\ hooks = [m \in 1..NModules(net) |-> 0]
    /\ model_grads = 0
    /\ calls = 0
    /\ hooks_at_call = hooks
    /\ Idle
    /\ state_dict \in Dicts(ModelValues)
    /\ UmIdle

NextUpdate == update_model

SpecUpdate == InitUpdate /\ [][NextUpdate]_vars

Next ==
    \/ call_get_vanilla_image_gradient
    \/ call_get_guided_image_gradient
    \/ call_get_smooth_image_gradient
    \/ call_get_input_gradient
    \/ next_call
    \/ ex_enter
    \/ ex_err_fn
    \/ ex_backward
    \/ ex_finish
    \/ sm_iter
    \/ sm_finish
    \/ ig_dispatch
    \/ ig_finish

Spec == Init /\ [][Next]_vars

\* ------------------------------------------------------------- properties
Done == pc = "done"
Returned == pc = "done" /\ outcome = "returned"
ZeroTensor(L) == [i \in 1..L |-> <<0, 1>>]
Count(q, e) == Cardinality({i \in 1..Len(q) : q[i] = e})
ExtractorEvents == {"get_vanilla_image_gradient", "get_guided_image_gradient"}

\* C1: every hook get_guided_image_gradient registers is removed before the
\* call ends, on every exit path (normal return and raise): the hooks on the
\* model after the call are the hooks before it.
C1_HooksRemovedOnEveryExit ==
    (Done /\ args.fn = "get_guided_image_gradient") => hooks = hooks_at_call

IgOther ==
    /\ args.fn = "get_input_gradient"
    /\ args.grad_type \notin {"vanilla", "guided", "smooth-vanilla", "smooth-guided"}

Dispatched(t) ==
    CASE t = "vanilla" -> "get_vanilla_image_gradient"
      [] t = "guided" -> "get_guided_image_gradient"
      [] t \in {"smooth-vanilla", "smooth-guided"} -> "get_smooth_image_gradient"
      [] OTHER -> "warn"

C4_DispatcherOrder ==
    args.fn = "get_input_gradient" =>
        /\ (sink # <<>> \/ Count(log, "results_fn") > 0) => Returned
        /\ Returned =>
             LET n == Len(log) IN
             /\ n >= 5
             /\ log[1] = "get_input_gradient"
             /\ log[2] = "zero_grad"
             /\ log[3] = Dispatched(args.grad_type)
             /\ log[n - 1] = "zero_grad"
             /\ log[n] = "results_fn"
             /\ Count(log, "results_fn") = 1
             /\ sink = << <<grad>> >>
             /\ retval = grad

C4_Witness ==
    /\ args.fn = "get_input_gradient"
    /\ Returned
    /\ args.grad_type = "smooth-guided"
    /\ args.n_runs = 2
    /\ sink = << <<retval>> >>
    /\ retval # ZeroTensor(Len(args.inpt))

\* C5 as stated: a get_smooth_image_gradient call with n_runs = N that returns
\* has made exactly N extractor calls, for every inner variant selector.
SmoothCalled == sm_grad_type # "none"

C5_ExactlyNInnerCallsAnySelector ==
    (Returned /\ SmoothCalled) => Len(seen) = args.n_runs

\* C5 amended: get_smooth_image_gradient never makes more than n_runs
\* extractor calls; when it returns it has made exactly n_runs of them if the
\* inner selector is vanilla or guided, and none for any other selector.
C5_InnerCallsBySelector ==
    SmoothCalled =>
        /\ Len(seen) <= args.n_runs
        /\ Count(log, "get_vanilla_image_gradient") + Count(log, "get_guided_image_gradient")
              = Len(seen)
        /\ sm_grad_type \notin {"vanilla", "guided"} => Len(seen) = 0
        /\ (Returned /\ sm_grad_type \in {"vanilla", "guided"}) => Len(seen) = args.n_runs

C5_Witness ==
    /\ Returned
    /\ args.fn = "get_smooth_image_gradient"
    /\ sm_grad_type = "vanilla"
    /\ args.n_runs = 2
    /\ Len(seen) = 2

\* C8 as stated: get_smooth_image_gradient with an inner selector that is
\* neither vanilla nor guided warns, raises nothing and returns a zero tensor
\* of the input's shape.
SmOther ==
    /\ args.fn = "get_smooth_image_gradient"
    /\ args.grad_type \notin {"vanilla", "guided"}

C8_UnknownSelectorAlwaysZero ==
    (SmOther /\ Done) =>
        /\ outcome = "returned"
        /\ warnings >= 1
        /\ retval = ZeroTensor(Len(args.inpt))

\* C8 amended: with n_runs >= 1, get_smooth_image_gradient with an inner
\* selector that is neither vanilla nor guided emits one warning per run,
\* substitutes a zero tensor of the input's shape for every run, calls no
\* extractor, raises nothing and returns a zero tensor of the input's shape.
C8_UnknownSelectorZeroWhenRunsPositive ==
    (SmOther /\ args.n_runs >= 1) =>
        /\ outcome # "raised"
        /\ seen = <<>>
        /\ warnings = Len(grads)
        /\ \A i \in 1..Len(grads) : grads[i] = ZeroTensor(Len(args.inpt))
        /\ Done => /\ outcome = "returned"
                   /\ warnings = args.n_runs
                   /\ Len(grads) = args.n_runs
                   /\ retval = ZeroTensor(Len(args.inpt))

C8_Witness ==
    /\ SmOther
    /\ Returned
    /\ args.n_runs = 2
    /\ args.eps = 1
    /\ Len(args.inpt) = 2
    /\ warnings = 2

\* C9: the input handed to the extractor in run i is the original input plus
\* the sum of the eps-scaled noise of runs 1..i; the caller's tensor is not
\* modified.
RECURSIVE PlusNoises(_, _, _)
PlusNoises(x, ns, i) ==
    IF i = 0 THEN x
    ELSE LET prev == PlusNoises(x, ns, i - 1)
         IN [k \in 1..Len(x) |-> RatAdd(prev[k], ns[i][k])]

C9_NoiseCompounds ==
    SmoothCalled =>
        /\ caller_inpt = args.inpt
        /\ Len(seen) <= Len(noises)
        /\ \A i \in 1..Len(seen) : seen[i] = PlusNoises(args.inpt, noises, i)

C9_Witness ==
    /\ SmoothCalled
    /\ args.eps = 1
    /\ Len(seen) = 2
    /\ seen[2] # PlusNoises(args.inpt, <<noises[2]>>, 1)
    /\ seen[2] = PlusNoises(args.inpt, noises, 2)

\* C10: get_smooth_image_gradient with n_runs = 1, eps = 0 and inner variant
\* vanilla or guided returns what that extractor returns on the unperturbed
\* input with the same abs flag.
ExtractorReturns(v, x, a) ==
    LET hk == IF v = "guided" THEN [m \in DOMAIN hooks_at_call |-> hooks_at_call[m] + 1]
              ELSE hooks_at_call
        g == InptGrad(args.err_fn, net, hk, x)
    IN IF a THEN [i \in 1..Len(g) |-> <<AbsInt(g[i][1]), g[i][2]>>] ELSE g

SmoothSingleExact ==
    /\ args.fn = "get_smooth_image_gradient"
    /\ args.grad_type \in {"vanilla", "guided"}
    /\ args.n_runs = 1
    /\ args.eps = 0

C10_SingleRunNoNoiseEqualsExtractor ==
    (SmoothSingleExact /\ Returned) =>
        retval = ExtractorReturns(args.grad_type, args.inpt, args.abs)

C10_Witness ==
    /\ SmoothSingleExact
    /\ Returned
    /\ args.grad_type = "guided"
    /\ args.err_fn = "model_sum"
    /\ Len(net) = 2
    /\ Len(args.inpt) = 2
    /\ retval = ExtractorReturns("guided", args.inpt, args.abs)
    /\ retval # ExtractorReturns("vanilla", args.inpt, args.abs)

\* C6: after update_model the model has the keys it had; a key that is in the
\* update and not excluded has the update's value, every other key its old
\* value; keys the model lacks and excluded keys change nothing.
UmDone == um_outcome # "none"

C6_MergeByKey ==
    UmDone =>
        /\ um_outcome = "returned"
        /\ DOMAIN state_dict = DOMAIN state_before
        /\ \A k \in DOMAIN state_dict :
              IF k \in DOMAIN um_args.update_dict /\ k \notin um_args.exclude_layers
              THEN state_dict[k] = um_args.update_dict[k]
              ELSE state_dict[k] = state_before[k]

C6_Witness ==
    /\ UmDone
    /\ DOMAIN state_before = {"A", "B", "C"}
    /\ DOMAIN um_args.update_dict = {"B", "C", "D"}
    /\ um_args.exclude_layers = {}
    /\ state_dict["A"] = state_before["A"]
    /\ state_dict["B"] = um_args.update_dict["B"] /\ state_dict["B"] # state_before["B"]
    /\ state_dict["C"] = um_args.update_dict["C"]
    /\ "D" \notin DOMAIN state_dict

\* C7: with warnings enabled update_model emits exactly one warning for each
\* unused key (in the update, not excluded, not in the model) and one for each
\* not-updated key (in the model, not excluded, not in the update), and no
\* other; with warnings disabled it emits none; the merge is the same either
\* way.
C7_WarningsPerKey ==
    UmDone =>
        /\ \A k \in Keys :
              /\ warned[<<"not used", k>>] =
                    IF /\ um_args.do_warnings
                       /\ k \in DOMAIN um_args.update_dict
                       /\ k \notin um_args.exclude_layers
                       /\ k \notin DOMAIN state_before
                    THEN 1 ELSE 0
              /\ warned[<<"not updated", k>>] =
                    IF /\ um_args.do_warnings
                       /\ k \in DOMAIN state_before
                       /\ k \notin um_args.exclude_layers
                       /\ k \notin DOMAIN um_args.update_dict
                    THEN 1 ELSE 0
        /\ state_dict = Merged(state_before, um_args.update_dict, um_args.exclude_layers,
                               ~um_args.do_warnings)

C7_Witness ==
    /\ UmDone
    /\ um_args.do_warnings
    /\ DOMAIN state_before = {"A", "B", "C"}
    /\ DOMAIN um_args.update_dict = {"B", "C", "D"}
    /\ um_args.exclude_layers = {}
    /\ warned[<<"not used", "D">>] = 1
    /\ warned[<<"not updated", "A">>] = 1
    /\ \A m \in Messages \ {<<"not used", "D">>, <<"not updated", "A">>} : warned[m] = 0

====
